---- MODULE Spec2Model ----
(***************************************************************************)
(* Model of the webpage-to-email daemon: the poll loop of main(), check()  *)
(* and sendPage(), in the two variants the repository holds:               *)
(*   "daemon"   src/cmd/daemon/daemon.go                                   *)
(*   "part_000" src/unnamed/part_000 (charset-aware get, SMTP server conf) *)
(*                                                                         *)
(* Strings are sequences of tokens, so that concatenation, Sprintf and     *)
(* strings.Join are sequence concatenation and "contains" is "has as a     *)
(* contiguous subsequence".  What the network answers (the monitored page, *)
(* the linked pages, the SMTP server) is the input of the actions.         *)
(***************************************************************************)
EXTENDS Integers, Sequences, FiniteSets, TLC

VARIABLES
    variant,    \* which source file runs; fixed for a run
    conf,       \* ScrapeConfig, immutable after startup
    pc,         \* position of main's loop: "top", "check", "notify", "sleep"
    base,       \* main: base (the parsed monitor URL)
    cache,      \* main: cache
    news,       \* main: news
    notfirst,   \* main: notfirst
    i,          \* index of the range loop over news (1-based)
    \* observations of the running iteration, cleared when it ends
    resp,       \* what the monitored page answered to check()
    wasSteady,  \* notfirst when check() was called
    attempts,   \* the (title, url) pairs sendPage was called with
    lresp,      \* what the linked page answered to the latest sendPage
    mail,       \* the message the latest sendPage gave to smtp.SendMail
    outcome,    \* how the latest entry of the range loop ended
    failed,     \* some entry of this range loop ended in a failure
    \* observations of the whole run
    everExtracted, \* some poll has extracted at least one link
    unslept     \* iterations begun since the last sleep (saturating)

vars == <<variant, conf, pc, base, cache, news, notfirst, i, resp, wasSteady,
          attempts, lresp, mail, outcome, failed, everExtracted, unslept>>

MaxLinks == 3     \* elements the link selector matches on one page, at most
MaxUnslept == 2   \* where the count of iterations without sleep saturates

StatusOK == 200
StatusFound == 302

Variants == {"daemon", "part_000"}

-----------------------------------------------------------------------------
(* Strings *)

RECURSIVE Join(_, _)
Join(parts, sep) ==
    IF Len(parts) = 0 THEN <<>>
    ELSE IF Len(parts) = 1 THEN parts[1]
    ELSE parts[1] \o sep \o Join(Tail(parts), sep)

ContainsSeq(hay, needle) ==
    \E k \in 0..(Len(hay) - Len(needle)) :
        SubSeq(hay, k + 1, k + Len(needle)) = needle

HR == <<"<hr>">>

-----------------------------------------------------------------------------
(* net/url as the loop uses it *)

BadEscape == "%zz"

Parse(s) ==
    IF \E k \in 1..Len(s) : s[k] = BadEscape
    THEN [ok |-> FALSE, Scheme |-> "", Host |-> "", Path |-> <<>>]
    ELSE IF Len(s) >= 3 /\ s[2] = "://"
    THEN [ok |-> TRUE, Scheme |-> s[1], Host |-> s[3], Path |-> SubSeq(s, 4, Len(s))]
    ELSE [ok |-> TRUE, Scheme |-> "", Host |-> "", Path |-> s]

LastSlash(p) ==
    IF \E k \in 1..Len(p) : p[k] = "/"
    THEN CHOOSE k \in 1..Len(p) : p[k] = "/" /\ \A m \in (k + 1)..Len(p) : p[m] # "/"
    ELSE 0

Rooted(p) == IF Len(p) > 0 /\ p[1] = "/" THEN p ELSE <<"/">> \o p

ResolveReference(b, ref) ==
    IF ref.Scheme # "" THEN ref
    ELSE IF Len(ref.Path) = 0 THEN b
    ELSE IF ref.Path[1] = "/" THEN [b EXCEPT !.Path = ref.Path]
    ELSE [b EXCEPT !.Path = Rooted(SubSeq(b.Path, 1, LastSlash(b.Path)) \o ref.Path)]

String(u) ==
    IF u.Scheme # "" THEN <<u.Scheme, "://", u.Host>> \o u.Path ELSE u.Path

\* http.NewRequest / client.Do refuse a URL that is not absolute http(s)
Requestable(s) ==
    LET u == Parse(s) IN u.ok /\ u.Scheme \in {"http", "https"} /\ u.Host # ""

-----------------------------------------------------------------------------
(* Inputs *)

MonitorURLs ==
    { <<"https", "://", "example.com", "/", "feed">>,   \* well-formed, absolute
      <<"feed">>,                                       \* parses, cannot be requested
      <<BadEscape>> }                                   \* url.Parse fails

Configs ==
    [Tag : {<<"tag">>}, MonitorURL : MonitorURLs, Title : {<<>>, <<".t">>},
     Email : {<<"rcpt">>}]

\* An element the link selector matched: its href attribute (if any), its text,
\* and the texts of the elements the title selector finds inside it.
Elements ==
    { [hasHref |-> TRUE,  href |-> <<"/", "p", "/", "1">>, text |-> <<"One">>, sub |-> << <<"One">> >>],
      [hasHref |-> TRUE,  href |-> <<"p", "/", "1">>,      text |-> <<"Two">>, sub |-> << <<"One">> >>],
      [hasHref |-> TRUE,  href |-> <<BadEscape>>,          text |-> <<"Bad">>, sub |-> <<>>],
      [hasHref |-> FALSE, href |-> <<>>,                   text |-> <<"Non">>, sub |-> <<>>] }

Pages == UNION { [1..n -> Elements] : n \in 0..MaxLinks }

\* An answer to a GET of the monitored page.  charsetOK = FALSE is a body
\* that charset.NewReader cannot read (part_000 only looks at it).
Response(reqErr, status, charsetOK, parseOK, matched) ==
    [reqErr |-> reqErr, status |-> status, charsetOK |-> charsetOK,
     parseOK |-> parseOK, matched |-> matched]

NoResp == Response(FALSE, 0, FALSE, FALSE, <<>>)

MonitorResponses ==
    { Response(TRUE, 0, FALSE, FALSE, <<>>),
      Response(FALSE, 404, TRUE, TRUE, <<>>),
      Response(FALSE, StatusFound, TRUE, TRUE, <<>>),
      Response(FALSE, StatusOK, FALSE, TRUE, <<>>),
      Response(FALSE, StatusOK, TRUE, FALSE, <<>>) }
    \cup { Response(FALSE, StatusOK, TRUE, TRUE, p) : p \in Pages }

\* An answer to a GET of a linked page: matched is the inner HTML of the
\* elements the filter selector finds, html the HTML of the whole document.
LinkedResponse(reqErr, status, charsetOK, parseOK, matched, html) ==
    [reqErr |-> reqErr, status |-> status, charsetOK |-> charsetOK,
     parseOK |-> parseOK, matched |-> matched, html |-> html]

NoLinkedResp == LinkedResponse(FALSE, 0, FALSE, FALSE, <<>>, <<>>)

LinkedResponses ==
    { LinkedResponse(TRUE, 0, FALSE, FALSE, <<>>, <<>>),
      LinkedResponse(FALSE, 404, TRUE, TRUE, <<>>, <<>>),
      LinkedResponse(FALSE, StatusFound, TRUE, TRUE, <<>>, <<>>),
      LinkedResponse(FALSE, StatusOK, FALSE, TRUE, <<>>, <<>>),
      LinkedResponse(FALSE, StatusOK, TRUE, FALSE, <<>>, <<>>),
      LinkedResponse(FALSE, StatusOK, TRUE, TRUE, <<>>, <<"page">>),
      LinkedResponse(FALSE, StatusOK, TRUE, TRUE, << <<"f1">>, <<"f2">> >>, <<"page">>) }

NoMail == <<>>

-----------------------------------------------------------------------------
(* get *)

\* daemon.go: the response as it came, or an error
get(url, r) ==
    [err |-> ~Requestable(url) \/ r.reqErr, res |-> r]

\* get, were a 302 answer let through as a document
get_part000Accepts302(url, r) ==
    IF ~Requestable(url) \/ r.reqErr THEN [err |-> TRUE, doc |-> NoLinkedResp]
    ELSE IF r.status # StatusOK /\ r.status # StatusFound THEN [err |-> TRUE, doc |-> NoLinkedResp]
    ELSE IF ~r.charsetOK THEN [err |-> TRUE, doc |-> NoLinkedResp]
    ELSE IF ~r.parseOK THEN [err |-> TRUE, doc |-> NoLinkedResp]
    ELSE [err |-> FALSE, doc |-> r]

\* part_000: the parsed document, or an error
get_part000(url, r) ==
    IF ~Requestable(url) \/ r.reqErr THEN [err |-> TRUE, doc |-> NoLinkedResp]
    ELSE IF r.status # StatusOK THEN [err |-> TRUE, doc |-> NoLinkedResp]
    ELSE IF ~r.charsetOK THEN [err |-> TRUE, doc |-> NoLinkedResp]
    ELSE IF ~r.parseOK THEN [err |-> TRUE, doc |-> NoLinkedResp]
    ELSE [err |-> FALSE, doc |-> r]

-----------------------------------------------------------------------------
(* check *)

TitleOf(c, s) ==
    IF c.Title = <<>> THEN s.text
    ELSE IF Len(s.sub) = 0 THEN <<"Untitled">>
    ELSE Join(s.sub, <<>>)

\* InPrev, were the URLs compared after normalising the leading slash
InPrevNormalized(entry, prev) ==
    \E k \in 1..Len(prev) : Rooted(entry.URL) = Rooted(prev[k].URL)

\* the loop over prev that returns from the callback on the first equal URL
InPrev(entry, prev) ==
    \E k \in 1..Len(prev) : entry.URL = prev[k].URL

\* Visit, were the test of the href attribute missing
VisitKeepsNonLinks(c, prev, s, acc) ==
    LET entry == [Title |-> TitleOf(c, s), URL |-> s.href] IN
    [curr |-> Append(acc.curr, entry),
     news |-> IF InPrev(entry, prev) THEN acc.news ELSE Append(acc.news, entry)]

\* Visit, were an entry put in curr only when its URL is in prev
VisitForgetsNew(c, prev, s, acc) ==
    IF ~s.hasHref THEN acc
    ELSE LET entry == [Title |-> TitleOf(c, s), URL |-> s.href] IN
         IF InPrev(entry, prev)
         THEN [curr |-> Append(acc.curr, entry), news |-> acc.news]
         ELSE [curr |-> acc.curr, news |-> Append(acc.news, entry)]

\* Visit, were an entry also compared with those collected in the same poll
VisitDedups(c, prev, s, acc) ==
    IF ~s.hasHref THEN acc
    ELSE LET entry == [Title |-> TitleOf(c, s), URL |-> s.href] IN
         IF InPrev(entry, acc.curr) THEN acc
         ELSE [curr |-> Append(acc.curr, entry),
               news |-> IF InPrev(entry, prev) THEN acc.news ELSE Append(acc.news, entry)]

\* the callback of results.Each, applied to the element s
Visit(c, prev, s, acc) ==
    IF ~s.hasHref THEN acc
    ELSE LET entry == [Title |-> TitleOf(c, s), URL |-> s.href] IN
         [curr |-> Append(acc.curr, entry),
          news |-> IF InPrev(entry, prev) THEN acc.news ELSE Append(acc.news, entry)]

\* the matched elements the callback does not skip
HrefElements(els) == SelectSeq(els, LAMBDA s : s.hasHref)

RECURSIVE Each(_, _, _, _)
Each(c, prev, els, acc) ==
    IF Len(els) = 0 THEN acc
    ELSE Each(c, prev, Tail(els), Visit(c, prev, Head(els), acc))

\* check, were the test results.Length() == 0 missing
checkNoEmptyGuard(c, prev, r) ==
    LET g == get(c.MonitorURL, r) IN
    IF g.err THEN [curr |-> prev, news |-> <<>>]
    ELSE IF g.res.status # StatusOK THEN [curr |-> prev, news |-> <<>>]
    ELSE IF ~g.res.parseOK THEN [curr |-> prev, news |-> <<>>]
    ELSE Each(c, prev, g.res.matched, [curr |-> <<>>, news |-> <<>>])

\* check, were a match without any href treated as no match
checkGuardsOnLinks(c, prev, r) ==
    LET g == get(c.MonitorURL, r) IN
    IF g.err THEN [curr |-> prev, news |-> <<>>]
    ELSE IF g.res.status # StatusOK THEN [curr |-> prev, news |-> <<>>]
    ELSE IF ~g.res.parseOK THEN [curr |-> prev, news |-> <<>>]
    ELSE IF Len(HrefElements(g.res.matched)) = 0 THEN [curr |-> prev, news |-> <<>>]
    ELSE Each(c, prev, g.res.matched, [curr |-> <<>>, news |-> <<>>])

check(c, prev, r) ==
    LET g == get(c.MonitorURL, r) IN
    IF g.err THEN [curr |-> prev, news |-> <<>>]
    ELSE IF g.res.status # StatusOK THEN [curr |-> prev, news |-> <<>>]
    ELSE IF ~g.res.parseOK THEN [curr |-> prev, news |-> <<>>]
    ELSE IF Len(g.res.matched) = 0 THEN [curr |-> prev, news |-> <<>>]
    ELSE Each(c, prev, g.res.matched, [curr |-> <<>>, news |-> <<>>])

\* check, were nil returned for the cache when the fetch fails
check_part000DropsCache(c, prev, r) ==
    LET g == get_part000(c.MonitorURL, r) IN
    IF g.err THEN [curr |-> <<>>, news |-> <<>>]
    ELSE IF Len(g.doc.matched) = 0 THEN [curr |-> prev, news |-> <<>>]
    ELSE Each(c, prev, g.doc.matched, [curr |-> <<>>, news |-> <<>>])

\* check, were the new entries added to the cache the callback was given
check_part000Merges(c, prev, r) ==
    LET g == get_part000(c.MonitorURL, r) IN
    IF g.err THEN [curr |-> prev, news |-> <<>>]
    ELSE IF Len(g.doc.matched) = 0 THEN [curr |-> prev, news |-> <<>>]
    ELSE LET res == Each(c, prev, g.doc.matched, [curr |-> <<>>, news |-> <<>>])
         IN  [curr |-> prev \o res.news, news |-> res.news]

check_part000(c, prev, r) ==
    LET g == get_part000(c.MonitorURL, r) IN
    IF g.err THEN [curr |-> prev, news |-> <<>>]
    ELSE IF Len(g.doc.matched) = 0 THEN [curr |-> prev, news |-> <<>>]
    ELSE Each(c, prev, g.doc.matched, [curr |-> <<>>, news |-> <<>>])

-----------------------------------------------------------------------------
(* sendPage *)

\* s.Html() and doc.Html() render into a buffer a tree the parser built: the
\* error branches of both (logged, the part left out) are never taken.
\* The log lines are output only and are left out throughout.

Anchor(url) == <<"<a href=\"">> \o url \o <<"\">">> \o url \o <<"</a>">>

\* smtp.SendMail with the message msg: the error is logged, nothing else
SendMail(msg, smtpOK) ==
    [outcome |-> IF smtpOK THEN "sent" ELSE "smtp_error", mail |-> msg]

Message(title, email, content) ==
    <<"Subject", " ">> \o title \o <<"\n", "To", ": ">> \o email
        \o <<"\n", "MIME-version", ": ", "1.0;", "\n",
             "Content-Type", ": ", "text/html;", "\n", "\n">>
        \o content

\* sendPage, were it to return when the filter finds nothing
sendPageAbortsOnEmpty(email, title, url, lr, smtpOK) ==
    LET g == get(url, lr) IN
    IF g.err THEN [outcome |-> "request_error", mail |-> NoMail]
    ELSE IF g.res.status = StatusOK THEN
        IF ~g.res.parseOK THEN [outcome |-> "parse_error", mail |-> NoMail]
        ELSE IF Len(g.res.matched) = 0
        THEN [outcome |-> "parse_error", mail |-> NoMail]
        ELSE SendMail(Message(title, email, Join(<<url>> \o g.res.matched, HR)), smtpOK)
    ELSE IF g.res.status = StatusFound
    THEN SendMail(Message(title, email, Anchor(url)), smtpOK)
    ELSE [outcome |-> "bad_status", mail |-> NoMail]

sendPage(email, title, url, lr, smtpOK) ==
    LET g == get(url, lr) IN
    IF g.err THEN [outcome |-> "request_error", mail |-> NoMail]
    ELSE IF g.res.status = StatusOK THEN
        IF ~g.res.parseOK THEN [outcome |-> "parse_error", mail |-> NoMail]
        ELSE IF Len(g.res.matched) = 0
        THEN SendMail(Message(title, email, Anchor(url)), smtpOK)
        ELSE SendMail(Message(title, email, Join(<<url>> \o g.res.matched, HR)), smtpOK)
    ELSE IF g.res.status = StatusFound
    THEN SendMail(Message(title, email, Anchor(url)), smtpOK)
    ELSE [outcome |-> "bad_status", mail |-> NoMail]

Message_part000(title, email, url, content) ==
    <<"From", ": ", "gw2e", "\n", "Subject", ": ">> \o title \o <<"\n", "To", ": ">> \o email
        \o <<"\n", "MIME-version", ": ", "1.0;", "\n",
             "Content-Type", ": ", "text/html; charset=utf-8", "\n", "\n">>
        \o url \o HR \o content

sendPage_part000(link, c, lr, smtpOK) ==
    LET g == get_part000(link.URL, lr) IN
    IF g.err THEN [outcome |-> "request_error", mail |-> NoMail]
    ELSE IF Len(g.doc.matched) = 0
    THEN SendMail(Message_part000(link.Title, c.Email, link.URL, g.doc.html), smtpOK)
    ELSE SendMail(Message_part000(link.Title, c.Email, link.URL, Join(g.doc.matched, HR)), smtpOK)

-----------------------------------------------------------------------------
(* main *)

Failures == {"url_error", "request_error", "parse_error", "bad_status", "smtp_error"}

\* what a poll that gets the page and finds links in it looks like
Fetched(v, url, r) ==
    /\ Requestable(url)
    /\ ~r.reqErr
    /\ r.status = StatusOK
    /\ r.parseOK
    /\ (v = "part_000" => r.charsetOK)

Extracted(v, url, r) == Fetched(v, url, r) /\ Len(r.matched) > 0

Init ==
    /\ variant \in Variants
    /\ conf \in Configs
    /\ pc = "top"
    /\ base = Parse(<<>>)
    /\ cache = <<>>
    /\ news = <<>>
    /\ notfirst = FALSE
    /\ i = 0
    /\ resp = NoResp
    /\ wasSteady = FALSE
    /\ attempts = <<>>
    /\ lresp = NoLinkedResp
    /\ mail = NoMail
    /\ outcome = "none"
    /\ failed = FALSE
    /\ everExtracted = FALSE
    /\ unslept = 0

Begun == IF unslept < MaxUnslept THEN unslept + 1 ELSE unslept

\* LoopContinue, were the loop to sleep before it tries again
LoopContinueSleeps ==
    /\ pc = "top"
    /\ ~Parse(conf.MonitorURL).ok
    /\ base' = Parse(conf.MonitorURL)
    /\ pc' = "sleep"
    /\ unslept' = Begun
    /\ UNCHANGED <<variant, conf, cache, news, notfirst, i, resp, wasSteady,
                   attempts, lresp, mail, outcome, failed, everExtracted>>

\* url.Parse(conf.MonitorURL) fails: continue
LoopContinue ==
    /\ pc = "top"
    /\ ~Parse(conf.MonitorURL).ok
    /\ base' = Parse(conf.MonitorURL)
    /\ pc' = "top"
    /\ unslept' = Begun
    /\ UNCHANGED <<variant, conf, cache, news, notfirst, i, resp, wasSteady,
                   attempts, lresp, mail, outcome, failed, everExtracted>>

LoopBegin ==
    /\ pc = "top"
    /\ Parse(conf.MonitorURL).ok
    /\ base' = Parse(conf.MonitorURL)
    /\ pc' = "check"
    /\ unslept' = Begun
    /\ UNCHANGED <<variant, conf, cache, news, notfirst, i, resp, wasSteady,
                   attempts, lresp, mail, outcome, failed, everExtracted>>

\* AfterCheck, were the test of notfirst inverted
AfterCheckSwapped(nf, nws) ==
    IF Len(nws) # 0
    THEN IF nf THEN "sleep" ELSE "notify"
    ELSE "sleep"

\* where the loop goes with the news check() returned
AfterCheck(nf, nws) ==
    IF Len(nws) # 0
    THEN IF ~nf THEN "sleep" ELSE "notify"
    ELSE "sleep"

\* SetNotFirst, were the flag assigned from the news of every poll
SetNotFirstFromNews(nf, nws) == Len(nws) # 0

\* if len(news) != 0 { if !notfirst { notfirst = true } }
SetNotFirst(nf, nws) == nf \/ Len(nws) # 0

Check ==
    /\ pc = "check"
    /\ \E r \in MonitorResponses :
        /\ resp' = r
        /\ \E res \in {IF variant = "daemon" THEN check(conf, cache, r)
                       ELSE check_part000(conf, cache, r)} :
            /\ cache' = res.curr
            /\ news' = res.news
            /\ notfirst' = SetNotFirst(notfirst, res.news)
            /\ pc' = AfterCheck(notfirst, res.news)
            /\ i' = 1
            /\ wasSteady' = notfirst
            /\ everExtracted' =
                   (everExtracted \/ (Extracted(variant, conf.MonitorURL, r)
                                      /\ Len(HrefElements(r.matched)) > 0))
    /\ UNCHANGED <<variant, conf, base, attempts, lresp, mail, outcome, failed, unslept>>

\* AfterEntry, were the range loop to stop one entry early
AfterEntryStopsEarly == IF i + 1 < Len(news) THEN "notify" ELSE "sleep"

\* the range loop over news: the next entry, or out of the loop
AfterEntry == IF i < Len(news) THEN "notify" ELSE "sleep"

\* NotifyBadURL, were the error branch to break out of the range loop
NotifyBadURLBreaks ==
    /\ pc = "notify"
    /\ ~Parse(news[i].URL).ok
    /\ outcome' = "url_error"
    /\ failed' = TRUE
    /\ lresp' = NoLinkedResp
    /\ mail' = NoMail
    /\ i' = i + 1
    /\ pc' = "sleep"
    /\ UNCHANGED <<variant, conf, base, cache, news, notfirst, resp, wasSteady,
                   attempts, everExtracted, unslept>>

\* NotifyBadURL, were the error logged with log.Fatalf: the process exits
NotifyBadURLFatal ==
    /\ pc = "notify"
    /\ ~Parse(news[i].URL).ok
    /\ outcome' = "url_error"
    /\ failed' = TRUE
    /\ lresp' = NoLinkedResp
    /\ mail' = NoMail
    /\ i' = i + 1
    /\ pc' = "exit"
    /\ UNCHANGED <<variant, conf, base, cache, news, notfirst, resp, wasSteady,
                   attempts, everExtracted, unslept>>

\* url.Parse(n.URL) fails: logged, next entry
NotifyBadURL ==
    /\ pc = "notify"
    /\ ~Parse(news[i].URL).ok
    /\ outcome' = "url_error"
    /\ failed' = TRUE
    /\ lresp' = NoLinkedResp
    /\ mail' = NoMail
    /\ i' = i + 1
    /\ pc' = AfterEntry
    /\ UNCHANGED <<variant, conf, base, cache, news, notfirst, resp, wasSteady,
                   attempts, everExtracted, unslept>>

LinkFor(c, b, n) ==
    [Title |-> c.Tag \o <<" | ">> \o n.Title,
     URL |-> String(ResolveReference(b, Parse(n.URL)))]

NotifySend ==
    /\ pc = "notify"
    /\ Parse(news[i].URL).ok
    /\ \E lr \in LinkedResponses, smtpOK \in BOOLEAN, link \in {LinkFor(conf, base, news[i])} :
        /\ lresp' = lr
        /\ attempts' = Append(attempts, link)
        /\ \E r \in {IF variant = "daemon"
                     THEN sendPage(conf.Email, link.Title, link.URL, lr, smtpOK)
                     ELSE sendPage_part000(link, conf, lr, smtpOK)} :
            /\ mail' = r.mail
            /\ outcome' = r.outcome
            /\ failed' = (failed \/ r.outcome \in Failures)
    /\ i' = i + 1
    /\ pc' = AfterEntry
    /\ UNCHANGED <<variant, conf, base, cache, news, notfirst, resp, wasSteady,
                   everExtracted, unslept>>

\* time.Sleep, then the next iteration
Sleep ==
    /\ pc = "sleep"
    /\ pc' = "top"
    /\ unslept' = 0
    /\ i' = 0
    /\ resp' = NoResp
    /\ wasSteady' = FALSE
    /\ attempts' = <<>>
    /\ lresp' = NoLinkedResp
    /\ mail' = NoMail
    /\ outcome' = "none"
    /\ failed' = FALSE
    /\ UNCHANGED <<variant, conf, base, cache, news, notfirst, everExtracted>>

Next == LoopContinue \/ LoopBegin \/ Check \/ NotifyBadURL \/ NotifySend \/ Sleep

Spec == Init /\ [][Next]_vars

\* One goroutine runs the loop and every call it makes returns: a step that
\* can be taken is taken.
FairSpec == Spec /\ WF_vars(Next)

TypeOK ==
    /\ pc \in {"top", "check", "notify", "sleep"}
    /\ Len(cache) <= MaxLinks
    /\ pc = "notify" => i \in 1..Len(news)

-----------------------------------------------------------------------------
(* Reading a message the way its receiver does (RFC 5322): the header is   *)
(* what precedes the first empty line, a header field is a line            *)
(* "name: value".                                                          *)

BlankLines(m) == {k \in 1..(Len(m) - 1) : m[k] = "\n" /\ m[k + 1] = "\n"}

FirstBlank(m) == CHOOSE k \in BlankLines(m) : \A j \in BlankLines(m) : k <= j

HeaderOf(m) == IF BlankLines(m) = {} THEN m ELSE SubSeq(m, 1, FirstBlank(m) - 1)

BodyOf(m) == IF BlankLines(m) = {} THEN <<>> ELSE SubSeq(m, FirstBlank(m) + 2, Len(m))

FieldStarts(h, name) ==
    {p \in 1..(Len(h) - 1) : (p = 1 \/ h[p - 1] = "\n") /\ h[p] = name /\ h[p + 1] = ": "}

LineEnd(h, p) ==
    IF \E q \in p..Len(h) : h[q] = "\n"
    THEN (CHOOSE q \in p..Len(h) : h[q] = "\n" /\ \A j \in p..(q - 1) : h[j] # "\n") - 1
    ELSE Len(h)

SubjectOf(m) ==
    LET h == HeaderOf(m)
        starts == FieldStarts(h, "Subject")
    IN  IF starts = {} THEN <<>>
        ELSE LET p == CHOOSE q \in starts : \A j \in starts : q <= j
             IN  SubSeq(h, p + 2, LineEnd(h, p))

-----------------------------------------------------------------------------
(* What the claims speak of *)

MapSeq(seq, Op(_)) == [k \in 1..Len(seq) |-> Op(seq[k])]

\* one LinkEntry for every matched element that has an href, in document order
Links(c, els) ==
    MapSeq(HrefElements(els), LAMBDA s : [Title |-> TitleOf(c, s), URL |-> s.href])

ExtractsLinks(v, url, r) == Extracted(v, url, r) /\ Len(HrefElements(r.matched)) > 0

\* the entry the range loop handled last
Handled == news[i - 1]

\* the absolute URL of an entry
Absolute(n) == String(ResolveReference(Parse(conf.MonitorURL), Parse(n.URL)))

NotifiedLink(n) == [Title |-> conf.Tag \o <<" | ">> \o n.Title, URL |-> Absolute(n)]

Parseable(seq) == SelectSeq(seq, LAMBDA n : Parse(n.URL).ok)

NoneSent == attempts = <<>> /\ mail = NoMail /\ outcome = "none"

\* C1: when check() extracts the page, news is exactly the subsequence of the
\* current entries whose URL string equals the URL of no entry of the previous
\* cache, in the order of current.
C1_DiffIsNewByURL ==
    [][(pc = "check" /\ Extracted(variant, conf.MonitorURL, resp')) =>
        LET current == cache'
            previous == cache
        IN  news' = SelectSeq(current,
                        LAMBDA e : \A k \in 1..Len(previous) : previous[k].URL # e.URL)
      ]_vars

C1_Witness ==
    /\ pc = "notify"
    /\ Extracted(variant, conf.MonitorURL, resp)
    /\ Len(cache) = 3
    /\ news = <<cache[1], cache[3]>>
    /\ cache[1].URL # cache[3].URL

\* C2: the first poll that extracts at least one link switches PRIMING to
\* STEADY, calls sendPage for none of the links and leaves the cache equal to
\* the extracted links in page order.
C2_Priming ==
    [][(pc = "check" /\ ~everExtracted /\ ExtractsLinks(variant, conf.MonitorURL, resp')) =>
        /\ ~notfirst
        /\ notfirst'
        /\ pc' = "sleep"
        /\ NoneSent'
        /\ cache' = Links(conf, resp'.matched)
      ]_vars

C2_Witness ==
    /\ pc = "sleep"
    /\ ~wasSteady
    /\ notfirst
    /\ ExtractsLinks(variant, conf.MonitorURL, resp)
    /\ Len(cache) >= 2
    /\ NoneSent

\* C3: a poll that fetches the page and whose link selector matches nothing
\* leaves the cache and the PRIMING/STEADY flag as they were and sends nothing.
C3_EmptyMatch ==
    [][(pc = "check" /\ Fetched(variant, conf.MonitorURL, resp') /\ Len(resp'.matched) = 0) =>
        /\ cache' = cache
        /\ notfirst' = notfirst
        /\ pc' = "sleep"
        /\ NoneSent'
      ]_vars

C3_Witness ==
    /\ pc = "sleep"
    /\ wasSteady
    /\ Len(cache) > 0
    /\ Fetched(variant, conf.MonitorURL, resp)
    /\ Len(resp.matched) = 0

\* C4: a poll whose fetch fails (request error, status other than 200, parse
\* error) returns the previous cache and no news: cache and flag stay, nothing
\* is sent.
C4_FailedPoll ==
    [][(pc = "check" /\ ~Fetched(variant, conf.MonitorURL, resp')) =>
        /\ cache' = cache
        /\ news' = <<>>
        /\ notfirst' = notfirst
        /\ pc' = "sleep"
        /\ NoneSent'
      ]_vars

C4_Witness ==
    /\ pc = "sleep"
    /\ wasSteady
    /\ Len(cache) > 0
    /\ resp.status = 404

\* C5 as stated: a poll that starts in STEADY and extracts the page calls
\* sendPage for every new entry, in order, and leaves the cache equal to the
\* extracted links.
C5_SendPageForEveryNew ==
    (pc = "sleep" /\ wasSteady /\ Extracted(variant, conf.MonitorURL, resp)) =>
        /\ attempts = MapSeq(news, NotifiedLink)
        /\ cache = Links(conf, resp.matched)

\* C5 as amended: a poll that starts in STEADY and extracts the page calls
\* sendPage for every new entry whose URL url.Parse accepts, in order, and
\* leaves the cache equal to the extracted links.
C5_SendPageForEveryParseableNew ==
    (pc = "sleep" /\ wasSteady /\ Extracted(variant, conf.MonitorURL, resp)) =>
        /\ attempts = MapSeq(Parseable(news), NotifiedLink)
        /\ cache = Links(conf, resp.matched)

C5_Witness ==
    /\ pc = "sleep"
    /\ wasSteady
    /\ Extracted(variant, conf.MonitorURL, resp)
    /\ Len(news) = 3
    /\ ~Parse(news[2].URL).ok
    /\ Len(attempts) = 2

\* C6: check() produces one entry for every matched element that has an href
\* and none for the others, in document order, wherever the href-less elements
\* stand.
C6_MissingHrefSkipped ==
    (pc \in {"notify", "sleep"} /\ Extracted(variant, conf.MonitorURL, resp)) =>
        /\ Len(cache) = Cardinality({k \in 1..Len(resp.matched) : resp.matched[k].hasHref})
        /\ \A k \in 1..Len(cache) : cache[k].URL = HrefElements(resp.matched)[k].href

C6_Witness ==
    /\ pc = "sleep"
    /\ Extracted(variant, conf.MonitorURL, resp)
    /\ Len(resp.matched) = 3
    /\ resp.matched[1].hasHref
    /\ ~resp.matched[2].hasHref
    /\ resp.matched[3].hasHref
    /\ Len(cache) = 2
    /\ cache[2].URL = resp.matched[3].href

\* C7: a failure while notifying one entry does not keep the loop from the
\* entries after it: the loop goes on to the next entry, and after a failure
\* every entry still gets its attempt.
C7_IndependentNotifications ==
    [][pc = "notify" =>
        /\ (outcome' \in Failures /\ i < Len(news)) =>
               (pc' = "notify" /\ i' = i + 1 /\ news' = news)
        /\ failed =>
               \/ outcome' = "url_error" /\ ~Parse(news[i].URL).ok
               \/ attempts' = Append(attempts, NotifiedLink(news[i]))
      ]_vars

C7_Witness ==
    /\ pc = "sleep"
    /\ Len(news) = 3
    /\ Len(attempts) = 3
    /\ failed
    /\ outcome = "sent"

C9_EmailAddressesEntry ==
    (mail # NoMail /\ outcome = "sent") =>
        /\ ContainsSeq(SubjectOf(mail), conf.Tag \o <<" | ">> \o Handled.Title)
        /\ ContainsSeq(BodyOf(mail), Absolute(Handled))
        /\ Requestable(Absolute(Handled))

\* the part of C9 that is about the body
C9_BodyHasAbsoluteURL ==
    (mail # NoMail /\ outcome = "sent") =>
        /\ ContainsSeq(BodyOf(mail), Absolute(Handled))
        /\ Requestable(Absolute(Handled))

\* C9 in part_000
C9_Part000 == variant = "part_000" => C9_EmailAddressesEntry

\* C10: every iteration of the loop ends in the sleep: no iteration begins
\* when the one before it has not slept.
C10_SleepEveryTick == unslept <= 1

\* C11: with a monitor URL that parses and every network call returning, every
\* iteration reaches its sleep and the next iteration begins, whatever errors
\* occur in it.
C11_NoErrorStopsLoop ==
    /\ (pc = "top" /\ Parse(conf.MonitorURL).ok) ~> (pc = "sleep")
    /\ (pc = "sleep") ~> (pc = "top")

C11_Witness ==
    /\ pc = "sleep"
    /\ wasSteady
    /\ Len(news) = 3
    /\ failed
    /\ outcome = "url_error"

\* C12: an entry whose notification failed is in the cache all the same; the
\* cache stays as it is until the next poll that extracts the page; at that
\* poll no entry whose URL is in the cache is in news, and sendPage is called
\* for entries of news only: the lost notification is not tried again.
C12_NoRetryOfLostNotification ==
    [][/\ outcome' \in Failures =>
              \E k \in 1..Len(cache') : cache'[k] = news'[i' - 1]
       /\ cache' # cache =>
              (pc = "check" /\ Extracted(variant, conf.MonitorURL, resp'))
       /\ pc = "check" =>
              \A k \in 1..Len(news') : \A j \in 1..Len(cache) :
                  cache[j].URL # news'[k].URL
       /\ (attempts' # attempts /\ attempts' # <<>>) =>
              (pc = "notify" /\ attempts' = Append(attempts, NotifiedLink(news[i])))
      ]_vars

C12_Witness ==
    /\ pc = "sleep"
    /\ wasSteady
    /\ outcome = "smtp_error"
    /\ mail # NoMail
    /\ \E k \in 1..Len(cache) : cache[k] = Handled

\* C13: when url.Parse rejects the monitor URL every iteration ends at the
\* continue: the loop stays at its top and begins the next iteration with no
\* sleep, the page is never fetched, nothing is sent, cache and flag stay as
\* they were.  A fetch of the page is only ever made by an iteration that
\* follows a sleep (or the start).  Both variants.
C13_MonitorURLParseFailure ==
    [][/\ ~Parse(conf.MonitorURL).ok =>
              /\ pc = "top" /\ pc' = "top"
              /\ unslept' >= 1 /\ unslept' >= unslept
              /\ cache' = cache /\ notfirst' = notfirst
              /\ resp' = NoResp /\ NoneSent'
       /\ pc' = "check" => unslept' = 1
      ]_vars

C13_Witness ==
    /\ ~Parse(conf.MonitorURL).ok
    /\ pc = "top"
    /\ unslept >= 2
    /\ resp = NoResp

\* C14: in PRIMING the cache is empty and nothing is being sent, and STEADY is
\* never left; so every state before a PRIMING state is a PRIMING state, and
\* no email was sent before it.
C14_PrimingSteady ==
    /\ [](~notfirst => (cache = <<>> /\ attempts = <<>> /\ mail = NoMail))
    /\ [][notfirst => notfirst']_vars

C14_Witness ==
    /\ ~notfirst
    /\ pc = "sleep"
    /\ Fetched(variant, conf.MonitorURL, resp)
    /\ Len(resp.matched) = 3
    /\ cache = <<>>

\* a poll whose selector matches elements none of which has an href
HreflessPoll ==
    /\ pc = "check"
    /\ Fetched(variant, conf.MonitorURL, resp')
    /\ Len(resp'.matched) > 0
    /\ Len(HrefElements(resp'.matched)) = 0

\* a STEADY poll with an empty cache that extracts links
PollAfterLoss ==
    /\ pc = "check"
    /\ notfirst
    /\ cache = <<>>
    /\ ExtractsLinks(variant, conf.MonitorURL, resp')

\* C15 as stated: a poll whose matches all lack href replaces the cache by the
\* empty sequence and leaves the flag as it is; at a STEADY poll with the cache
\* so lost every link of the page is in news, and every entry of news the loop
\* comes to is handed to sendPage.
C15_AllLinksEmailedAfterLoss ==
    [][/\ HreflessPoll =>
              (cache' = <<>> /\ news' = <<>> /\ notfirst' = notfirst /\ pc' = "sleep")
       /\ PollAfterLoss =>
              (news' = Links(conf, resp'.matched) /\ cache' = news' /\ pc' = "notify")
       /\ pc = "notify" =>
              /\ attempts' = Append(attempts, NotifiedLink(news[i]))
              /\ pc' = AfterEntry
      ]_vars

\* C15 as amended: the same, with sendPage called for every entry of news whose
\* URL url.Parse accepts; an entry whose URL it rejects is logged and passed
\* over.
C15_AllMatchesLackHref ==
    [][/\ HreflessPoll =>
              (cache' = <<>> /\ news' = <<>> /\ notfirst' = notfirst /\ pc' = "sleep")
       /\ PollAfterLoss =>
              (news' = Links(conf, resp'.matched) /\ cache' = news' /\ pc' = "notify")
       /\ pc = "notify" =>
              /\ Parse(news[i].URL).ok =>
                     attempts' = Append(attempts, NotifiedLink(news[i]))
              /\ ~Parse(news[i].URL).ok => attempts' = attempts
              /\ pc' = AfterEntry
      ]_vars

C15_Witness ==
    /\ pc = "sleep"
    /\ wasSteady
    /\ notfirst
    /\ Fetched(variant, conf.MonitorURL, resp)
    /\ Len(resp.matched) = 3
    /\ Len(HrefElements(resp.matched)) = 0
    /\ cache = <<>>

\* C16: what a poll sends depends on the cache alone, and the cache is what the
\* last poll that extracted the page left: such a poll replaces the cache by
\* the links of the page, whatever the cache held, and puts in news the entries
\* whose URL the old cache lacks; any other poll and every other step leaves
\* the cache as it is; sendPage is called in STEADY only, for entries of news.
\* So a URL of two such polls in a row is not sent at the second, and a URL
\* that one of them lacked is sent when it is back.
C16_LastSuccessfulPollOnly ==
    [][/\ pc = "check" =>
              IF Extracted(variant, conf.MonitorURL, resp')
              THEN /\ cache' = Links(conf, resp'.matched)
                   /\ news' = SelectSeq(cache', LAMBDA e : ~InPrev(e, cache))
              ELSE /\ cache' = cache
                   /\ news' = <<>>
       /\ pc # "check" => (cache' = cache /\ news' = news)
       /\ pc = "notify" =>
              /\ notfirst
              /\ attempts' \in {attempts, Append(attempts, NotifiedLink(news[i]))}
      ]_vars

\* all three URLs of the pages are new to a STEADY poll: each URL that put the
\* loop in STEADY was lacking in the poll before this one and is sent again
C16_Witness ==
    /\ pc = "sleep"
    /\ wasSteady
    /\ Len(news) = 3
    /\ news[1].URL # news[2].URL
    /\ news[1].URL # news[3].URL
    /\ news[2].URL # news[3].URL
    /\ Len(attempts) = 2

\* how many entries of seq have the URL u
Count(seq, u) == Cardinality({k \in 1..Len(seq) : seq[k].URL = u})

\* C17: after a poll that extracts the page every matched element with an href
\* has its own entry in the cache, equal URLs included; of the entries with one
\* URL either all are in news or none; and a STEADY poll calls sendPage once
\* for every entry of news whose URL parses, equal URLs included.
C17_NoDeduplication ==
    (pc \in {"notify", "sleep"} /\ Extracted(variant, conf.MonitorURL, resp)) =>
        /\ \A k \in 1..Len(resp.matched) :
               resp.matched[k].hasHref =>
                   LET u == resp.matched[k].href IN
                   /\ Count(cache, u) = Cardinality({j \in 1..Len(resp.matched) :
                           resp.matched[j].hasHref /\ resp.matched[j].href = u})
                   /\ Count(news, u) \in {0, Count(cache, u)}
        /\ (pc = "sleep" /\ wasSteady) =>
               /\ Len(attempts) = Len(Parseable(news))
               /\ \A k \in 1..Len(attempts) :
                      attempts[k].URL = Absolute(Parseable(news)[k])

C17_Witness ==
    /\ pc = "sleep"
    /\ wasSteady
    /\ Len(news) = 3
    /\ news[1].URL = news[3].URL
    /\ news[1].URL # news[2].URL
    /\ Len(attempts) = 3
    /\ attempts[1] = attempts[3]

\* C18: what the answer of the linked page leads to.  daemon.go: a request
\* error gives no message; 302 gives a message whose body is the anchor of the
\* URL; a status other than 200 and 302 gives no message.  part_000: a request
\* error, a status other than 200 (302 too), a charset or parse error give no
\* message.
C18_LinkedPageStatus ==
    (pc \in {"notify", "sleep"} /\ attempts # <<>> /\ outcome # "url_error") =>
        LET url == attempts[Len(attempts)].URL
            reqErr == ~Requestable(url) \/ lresp.reqErr
        IN  IF variant = "daemon"
            THEN /\ reqErr => (mail = NoMail /\ outcome = "request_error")
                 /\ (~reqErr /\ lresp.status = StatusFound) =>
                        /\ outcome \in {"sent", "smtp_error"}
                        /\ mail # NoMail
                        /\ BodyOf(mail) = Anchor(url)
                 /\ (~reqErr /\ lresp.status \notin {StatusOK, StatusFound}) =>
                        (mail = NoMail /\ outcome = "bad_status")
            ELSE (reqErr \/ lresp.status # StatusOK \/ ~lresp.charsetOK \/ ~lresp.parseOK) =>
                        (mail = NoMail /\ outcome = "request_error")

C18_Witness ==
    /\ variant = "daemon"
    /\ pc = "sleep"
    /\ lresp.status = StatusFound
    /\ outcome = "sent"
    /\ BodyOf(mail) = Anchor(attempts[Len(attempts)].URL)

====
